---- MODULE Spec2Model ----
(***************************************************************************)
(* A model of the WebShop "dream" gym environments:                        *)
(*   WebAgentDreamDOMEnv  (web_agent_site/envs/web_agent_dream_env_dom.py) *)
(*   WebAgentDreamEnv     (web_agent_site/envs/web_agent_dream_env.py)     *)
(*                                                                         *)
(* Python values are modelled as follows.  A value that may be None is an  *)
(* option: None is <<>> and a present value v is <<v>>.  An object is a    *)
(* record of its attributes; an attribute that has not been assigned yet   *)
(* is absent from the record's domain, and reading it is AttributeError.   *)
(* A string the code scans or edits (a URL, a page's markup) is a sequence *)
(* of tokens, each token a piece of text that no operation here splits.    *)
(* The web application and the browser are external: a response body is    *)
(* any page of a small set, a browser call succeeds or raises.             *)
(***************************************************************************)
EXTENDS Integers, Sequences, FiniteSets, TLC

VARIABLES
    _browser,       \* WebAgentDreamDOMEnv._browser: None or the index of a driver
    _app_process,   \* WebAgentDreamDOMEnv._app_process: None or the index of a process
    processes,      \* every app process started so far: "running" or "terminated"
    drivers,        \* every browser driver started so far: "live" or "quit"
    self,           \* the WebAgentDreamDOMEnv instance the caller holds (None before one exists)
    dream,          \* the WebAgentDreamEnv instance the caller holds (None before one exists)
    page,           \* the page loaded in the WebAgentDreamEnv browser
    last            \* the last call made: its name, arguments, outcome and external traffic

vars == <<_browser, _app_process, processes, drivers, self, dream, page, last>>

domVars == <<_browser, _app_process, processes, drivers, self>>
dreamVars == <<dream, page>>

----------------------------------------------------------------------------
(* Bounds of the model.                                                    *)

MaxElems == 2          \* elements of a page drawn for get_available_click_actions
MaxDriverFiles == 3    \* files prefixed 'chromedriver' in the package directory
MaxProcesses == 3      \* app processes started in one run
MaxAction == 2         \* step is called with an action in -MaxAction-1 .. MaxAction
MaxTyped == 1          \* times the instruction is typed into one page's search bar

----------------------------------------------------------------------------
(* Python values.                                                          *)

None == <<>>
Some(v) == <<v>>
Get(o) == o[1]

HasAttr(obj, name) == name \in DOMAIN obj
SetAttr(obj, name, v) ==
    [n \in (DOMAIN obj) \cup {name} |-> IF n = name THEN v ELSE obj[n]]

\* seq[i] of a Python list: a negative i counts from the end.
InRange(seq, i) == -Len(seq) <= i /\ i < Len(seq)
PyIndex(seq, i) == IF i >= 0 THEN seq[i + 1] ELSE seq[Len(seq) + i + 1]

RECURSIVE Concat(_)
Concat(seqs) == IF seqs = <<>> THEN <<>> ELSE Head(seqs) \o Concat(Tail(seqs))

Map(F(_), seq) == [i \in 1..Len(seq) |-> F(seq[i])]

StartsWith(s, tok) == Len(s) > 0 /\ s[1] = tok
Contains(s, tok) == \E i \in 1..Len(s) : s[i] = tok

\* s.replace(tok, '') for a one-token pattern
RemoveAll(s, tok) == SelectSeq(s, LAMBDA t : t # tok)

----------------------------------------------------------------------------
(* urllib.parse.unquote, html.unescape and urllib.parse.quote on the       *)
(* tokens of an attribute value.  "%3F" and "%2F" are percent escapes,     *)
(* "&amp;" is a character reference; the other tokens are single           *)
(* characters.                                                             *)

UnquoteTok(t) ==
    CASE t = "%3F" -> "?"
      [] t = "%2F" -> "/"
      [] t = "%26" -> "&"
      [] OTHER -> t

UnescapeTok(t) == IF t = "&amp;" THEN "&" ELSE t

\* quote(url) with the default safe='/': letters and '/' are kept, every
\* other character is percent-encoded (one token per encoded character).
QuoteTok(t) ==
    CASE t \in {"/", "a", "h"} -> <<t>>
      [] t = "?" -> <<"%3F">>
      [] t = "&" -> <<"%26">>
      [] t = "%3F" -> <<"%25", "3", "F">>
      [] t = "%2F" -> <<"%25", "2", "F">>
      [] t = "%26" -> <<"%25", "2", "6">>
      [] t = "&amp;" -> <<"%26", "a", "m", "p", "%3B">>
      [] OTHER -> <<t>>

unquote(url) == Map(UnquoteTok, url)
unescape(url) == Map(UnescapeTok, url)
quote(url) == Concat(Map(QuoteTok, url))

----------------------------------------------------------------------------
(* Pages.  A page is what the web application serves: its elements that    *)
(* carry a URL, the content of the element with id 'instruction-text' and  *)
(* of the element with id 'best-products'.                                 *)

Quote == "\""
OpenAction == "action=\""
OpenFormaction == "formaction=\""
OpenProductLink == "class=\"product-link\" href=\""
OpenHref == "href=\""

\* the markup of one element
ElemMarkup(e) ==
    CASE e.tag = "form" -> <<"<form ", OpenAction>> \o e.value \o <<Quote, ">">>
      [] e.tag = "button" -> <<"<button ", OpenFormaction>> \o e.value \o <<Quote, ">">>
      [] e.tag = "product-link" -> <<"<a ", OpenProductLink>> \o e.value \o <<Quote, ">">>
      [] e.tag = "a" -> <<"<a ", OpenHref>> \o e.value \o <<Quote, ">">>

Markup(elems) == Concat(Map(ElemMarkup, elems))

\* re.compile(opener + '(.*?)"').findall(toks): the captured values, in order.
\* openers are the tokens whose text ends with the pattern's literal prefix.
RECURSIVE FindAllFrom(_, _, _)
FindAllFrom(openers, toks, i) ==
    IF i > Len(toks) THEN <<>>
    ELSE IF toks[i] \in openers /\ \E j \in (i + 1)..Len(toks) : toks[j] = Quote
         THEN LET j == CHOOSE k \in (i + 1)..Len(toks) :
                          /\ toks[k] = Quote
                          /\ \A m \in (i + 1)..(k - 1) : toks[m] # Quote
              IN  <<SubSeq(toks, i + 1, j - 1)>> \o FindAllFrom(openers, toks, j + 1)
         ELSE FindAllFrom(openers, toks, i + 1)

FindAll(openers, toks) == FindAllFrom(openers, toks, 1)

\* the tokens in which r'action="' matches, and those in which
\* r'class="product-link" href="' matches
PatternAction == {OpenAction, OpenFormaction}
PatternProductLink == {OpenProductLink}

FilterSlashNone(urls) == urls
FilterSlash(urls) == SelectSeq(urls, LAMBDA u : StartsWith(u, "/"))

\* WebAgentDreamDOMEnv.get_available_click_actions, on a page source
get_available_click_actions(page_source) ==
    LET urls1 == FindAll(PatternAction, Markup(page_source.elems))
        urls2 == urls1 \o FindAll(PatternProductLink, Markup(page_source.elems))
        urls3 == FilterSlash(urls2)
        urls4 == Map(unquote, urls3)
        urls5 == Map(unescape, urls4)
    IN  Map(quote, urls5)

----------------------------------------------------------------------------
(* What the web application serves.                                        *)

Absent == "<absent>"        \* no element with the id
NoHeading == "<no-h4>"      \* the element has no h4 child

Values ==
    { <<"/", "a">>,           \* a plain path
      <<"/", "a", "?">>,      \* a path with a reserved character
      <<"/", "%3F">>,         \* a path that is already percent-encoded
      <<"/", "&amp;">>,       \* a path with a character reference
      <<"h", "/", "a">>,      \* an absolute URL: does not begin with '/'
      <<"%2F", "a">> }        \* begins with an encoded '/', not with '/'

Tags == {"form", "button", "product-link", "a"}

Elems == [tag : Tags, value : Values]

Json1 == "[\"p1\"]"
Json2 == "[\"p2\"]"

SearchPage ==
    [elems |-> << [tag |-> "form", value |-> <<"/", "a">>] >>,
     instruction |-> "buy a", best |-> Json1]
ResultsPage ==
    [elems |-> << [tag |-> "form", value |-> <<"h", "/", "a">>],
                  [tag |-> "a", value |-> <<"/", "a">>],
                  [tag |-> "product-link", value |-> <<"/", "a", "?">>],
                  [tag |-> "product-link", value |-> <<"/", "%3F">>] >>,
     instruction |-> "buy b", best |-> Json2]
NoInstructionPage ==
    [elems |-> << [tag |-> "form", value |-> <<"/", "a">>] >>,
     instruction |-> Absent, best |-> Json1]
NoHeadingPage ==
    [elems |-> <<>>, instruction |-> NoHeading, best |-> Json1]
NoBestPage ==
    [elems |-> <<>>, instruction |-> "buy a", best |-> Absent]
NoBestHeadingPage ==
    [elems |-> <<>>, instruction |-> "buy b", best |-> NoHeading]

\* the bodies app.test_client().get(url) may return
ServerPages ==
    {SearchPage, ResultsPage, NoInstructionPage, NoHeadingPage, NoBestPage,
     NoBestHeadingPage}

\* json.loads on the texts the pages carry
JsonValid(text) == text \in {Json1, Json2}
JsonLoads(text) == IF text = Json1 THEN <<"p1">> ELSE <<"p2">>

----------------------------------------------------------------------------
(* The record of the last call.                                            *)

NoCall ==
    [op |-> "none", action |-> 0, outcome |-> "returned", gets |-> <<>>,
     driver_gets |-> <<>>, clicks |-> <<>>, started |-> <<0, 0>>, ret |-> <<>>]

Call(op, action, outcome, gets, ret) ==
    [op |-> op, action |-> action, outcome |-> outcome, gets |-> gets,
     driver_gets |-> <<>>, clicks |-> <<>>, started |-> <<0, 0>>, ret |-> ret]

----------------------------------------------------------------------------
(* WebAgentDreamDOMEnv.                                                    *)


AppUrl == "http://0.0.0.0:PORT"     \* f'http://{self.APP_HOST}:{self.APP_PORT}'
Localhost == "http://localhost"
EpisodeStart == <<"&", "episode_start=1">>

\* the keyword arguments a caller constructs the environment with
Configs ==
    { [return_n |-> 3, num_random |-> 0, shuffle_products |-> Some(FALSE)],
      [return_n |-> 5, num_random |-> 2, shuffle_products |-> Some(TRUE)],
      [return_n |-> 3, num_random |-> 0, shuffle_products |-> None] }

\* the arguments reset is called with; RandomSessions stands for
\* ''.join(random.choices(string.ascii_lowercase, k=5))
GoalIds == {None, Some(1)}
Seeds == {None, Some(0)}
RandomSessions == {"abcde"}
Actions == (-MaxAction - 1)..MaxAction

\* the directory listing: for each file prefixed 'chromedriver', in order,
\* whether Chrome(executable_path=file) starts
Listings == UNION {[1..n -> BOOLEAN] : n \in 0..MaxDriverFiles}

\* the attributes __init__ assigns
NewEnv(cfg) ==
    [return_n |-> cfg.return_n, num_random |-> cfg.num_random,
     shuffle_products |-> cfg.shuffle_products,
     _cur_state |-> None, page_source |-> None, first_step |-> TRUE]

\* the drivers the loop over binary_paths starts: one for each file that launches
StartedBrowsers(launches) == Cardinality({i \in DOMAIN launches : launches[i]})

\* line 84: the app process is started when none is recorded
NeedsAppAlways(app) == TRUE
NeedsApp(app) == app = None

DOM__init__(cfg, launches) ==
    /\ _app_process = None => Len(processes) < MaxProcesses
    /\ LET startApp == NeedsApp(_app_process)
           procs1 == IF startApp THEN Append(processes, "running") ELSE processes
           k == IF _browser = None THEN StartedBrowsers(launches) ELSE 0
           drivers1 == drivers \o [i \in 1..k |-> "live"]
           raised == _browser = None /\ k = 0
       IN  /\ processes' = procs1
           /\ _app_process' = IF startApp THEN Some(Len(procs1)) ELSE _app_process
           /\ drivers' = drivers1
           /\ _browser' = IF k > 0 THEN Some(Len(drivers1)) ELSE _browser
           /\ self' = IF raised THEN self ELSE Some(NewEnv(cfg))
           /\ last' = [Call("__init__", 0,
                            IF raised THEN "Exception" ELSE "returned", <<>>, <<>>)
                           EXCEPT !.started = <<IF startApp THEN 1 ELSE 0, k>>]
    /\ UNCHANGED dreamVars

IntOfBool(b) == IF b THEN 1 ELSE 0

add_query_parameters_amp(env, url_string) ==
    LET u2 == Append(url_string, "&")
              \o <<"return_n=" \o ToString(env.return_n), "&",
                    "num_random=" \o ToString(env.num_random)>>
        u3 == IF env.seed # None
              THEN u2 \o <<"&", "seed=" \o ToString(Get(env.seed))>> ELSE u2
    IN  IF env.shuffle_products # None
        THEN u3 \o <<"&", "shuffle_products="
                          \o ToString(IntOfBool(Get(env.shuffle_products)))>>
        ELSE u3

add_query_parameters(env, url_string) ==
    LET u1 == IF Contains(url_string, "?")
              THEN Append(url_string, "&") ELSE Append(url_string, "?")
        u2 == u1 \o <<"return_n=" \o ToString(env.return_n), "&",
                      "num_random=" \o ToString(env.num_random)>>
        u3 == IF env.seed # None
              THEN u2 \o <<"&", "seed=" \o ToString(Get(env.seed))>> ELSE u2
    IN  IF env.shuffle_products # None
        THEN u3 \o <<"&", "shuffle_products="
                          \o ToString(IntOfBool(Get(env.shuffle_products)))>>
        ELSE u3

Raise(exc) == [exc |-> exc, value |-> <<>>]
Return(v) == [exc |-> "", value |-> <<v>>]

\* html_obj.find(id='instruction-text').h4.text
get_instruction_text_default(page_source) ==
    IF page_source.instruction \in {Absent, NoHeading}
    THEN Return("")
    ELSE Return(page_source.instruction)

get_instruction_text(page_source) ==
    IF page_source.instruction \in {Absent, NoHeading}
    THEN Raise("AttributeError")
    ELSE Return(page_source.instruction)

\* json.loads(html_obj.find(id='best-products').h4.text)
get_best_products(page_source) ==
    IF page_source.best \in {Absent, NoHeading} THEN Raise("AttributeError")
    ELSE IF ~JsonValid(page_source.best) THEN Raise("JSONDecodeError")
    ELSE Return(JsonLoads(page_source.best))

HasState(env) == HasAttr(env, "instruction_text") /\ HasAttr(env, "best_products")

\* the state property
\* the observation: html is the page held, instruction_text and best_products
\* are the attributes reset stored
stateOfPage(env) ==
    [html |-> env.page_source,
     instruction_text |-> Get(env.page_source).instruction,
     best_products |-> env.best_products]
state(env) ==
    [html |-> env.page_source, instruction_text |-> env.instruction_text,
     best_products |-> env.best_products]

SessionOf(goal_id, rnd) ==
    IF goal_id # None THEN "fixed_" \o ToString(Get(goal_id)) ELSE rnd

\* the assignments of reset up to the page fetch: the attributes, the URL
\* requested, and the instance with the page stored
ResetUrl(env, session) == add_query_parameters(env, <<Localhost, "/", session>>)

ResetFetched(env, goal_id, rnd, seed, is_test, body) ==
    LET session == SessionOf(goal_id, rnd)
        s1 == SetAttr(SetAttr(SetAttr(SetAttr(env,
                  "session", session), "seed", seed), "is_test", is_test),
                  "first_step", TRUE)
        s2 == SetAttr(s1, "_cur_state",
                      Some(RemoveAll(ResetUrl(s1, session), Localhost)))
    IN  SetAttr(s2, "page_source", Some(body))

\* the extraction that ends reset: the outcome and the instance it leaves
ResetExtract(s3) ==
    LET body == Get(s3.page_source)
        it == get_instruction_text(body)
        s4 == IF it.exc = "" THEN SetAttr(s3, "instruction_text", Get(it.value)) ELSE s3
        bp == IF it.exc = "" THEN get_best_products(body) ELSE it
    IN  [exc |-> bp.exc,
         env |-> IF bp.exc = "" THEN SetAttr(s4, "best_products", Get(bp.value)) ELSE s4]

DOM_reset(goal_id, rnd, seed, is_test, body) ==
    /\ self # None
    /\ LET s3 == ResetFetched(Get(self), goal_id, rnd, seed, is_test, body)
           url == ResetUrl(s3, s3.session) \o EpisodeStart
           gets == << [url |-> url, body |-> body] >>
           r == ResetExtract(s3)
       IN  /\ self' = Some(r.env)
           /\ last' = IF r.exc = ""
                      THEN Call("reset", 0, "returned", gets, <<state(r.env), None>>)
                      ELSE Call("reset", 0, r.exc, gets, <<>>)
    /\ UNCHANGED <<_browser, _app_process, processes, drivers, dreamVars>>

\* the URL step fetches for an action, given the action list
SelectFromEnd(urls, action) == PyIndex(urls, -action - 1)
Select(urls, action) == PyIndex(urls, action)
Ignored(urls, action) == action >= Len(urls)

DOM_step(action, body) ==
    /\ self # None
    /\ LET s1 == SetAttr(Get(self), "first_step", FALSE)
       IN  IF s1.page_source = None
           THEN \* pattern.findall(None)
                /\ self' = Some(s1)
                /\ last' = Call("step", action, "TypeError", <<>>, <<>>)
           ELSE LET urls == get_available_click_actions(Get(s1.page_source))
                    fetch == ~Ignored(urls, action)
                IN  IF fetch /\ ~InRange(urls, action)
                    THEN \* urls[action]
                         /\ self' = Some(s1)
                         /\ last' = Call("step", action, "IndexError", <<>>, <<>>)
                    ELSE LET url == Select(urls, action)
                             s2 == IF fetch
                                   THEN SetAttr(SetAttr(s1, "page_source", Some(body)),
                                                "_cur_state", Some(url))
                                   ELSE s1
                             gets == IF fetch THEN << [url |-> url, body |-> body] >>
                                     ELSE <<>>
                         IN  /\ self' = Some(s2)
                             /\ last' = IF HasState(s2)
                                        THEN Call("step", action, "returned", gets,
                                                  <<state(s2), 0, FALSE, None>>)
                                        ELSE Call("step", action, "AttributeError",
                                                  gets, <<>>)
    /\ UNCHANGED <<_browser, _app_process, processes, drivers, dreamVars>>

\* the screenshot property: the URL the browser is sent to
ScreenshotUrlAlways(env) == <<AppUrl>> \o Get(env._cur_state) \o EpisodeStart
ScreenshotUrl(env) ==
    IF env.first_step
    THEN <<AppUrl>> \o Get(env._cur_state) \o EpisodeStart
    ELSE <<AppUrl>> \o Get(env._cur_state)

\* the text of a URL
RECURSIVE Text(_)
Text(url) == IF url = <<>> THEN "" ELSE Head(url) \o Text(Tail(url))

\* str.split('/'): the parts of str from start on, scanning at i
RECURSIVE SplitFrom(_, _, _)
SplitFrom(str, start, i) ==
    IF i > Len(str) THEN <<SubSeq(str, start, Len(str))>>
    ELSE IF SubSeq(str, i, i) = "/"
         THEN <<SubSeq(str, start, i - 1)>> \o SplitFrom(str, i + 1, i + 1)
         ELSE SplitFrom(str, start, i + 1)

\* p[:10] + '...' + p[-10:] if len(p) > 20 else p
Ellipsis(p) ==
    IF Len(p) > 20 THEN SubSeq(p, 1, 10) \o "..." \o SubSeq(p, Len(p) - 9, Len(p)) ELSE p

RECURSIVE JoinSlash(_)
JoinSlash(parts) ==
    IF Len(parts) = 1 THEN parts[1] ELSE parts[1] \o "/" \o JoinSlash(Tail(parts))

clean_url(url) == JoinSlash(Map(Ellipsis, SplitFrom(Text(url), 1, 1)))

\* line 270: render takes the real screenshot when self.is_test
UsesScreenshotByMode(env, mode) == mode = "rgb_array"
UsesScreenshot(env, mode) == env.is_test

Modes == {"human", "rgb_array"}

\* render(mode); font says whether ImageFont.truetype('arial.ttf', 12) finds
\* the font.  The call record carries the mode.
DOM_render(mode, font) ==
    /\ self # None
    /\ LET env == Get(self)
           Rendered(outcome, ret) ==
               SetAttr(Call("render", 0, outcome, <<>>, ret), "mode", mode)
       IN  last' =
             IF ~HasAttr(env, "is_test") THEN Rendered("AttributeError", <<>>)
             ELSE IF ~UsesScreenshot(env, mode)
                  THEN IF ~font THEN Rendered("OSError", <<>>)
                       ELSE IF env._cur_state = None
                            THEN Rendered("AttributeError", <<>>)
                       ELSE Rendered("returned",
                                     <<"fake_screenshot", clean_url(Get(env._cur_state))>>)
             ELSE IF env._cur_state = None
                  THEN Rendered("TypeError", <<>>)
             ELSE IF _browser = None
                  THEN Rendered("AttributeError", <<>>)
             ELSE IF drivers[Get(_browser)] # "live"
                  THEN Rendered("WebDriverException", <<>>)
             ELSE [Rendered("returned", <<"screenshot">>)
                     EXCEPT !.driver_gets = <<ScreenshotUrl(env)>>]
    /\ UNCHANGED <<domVars, dreamVars>>

\* a call of get_available_click_actions on the instance
DOM_get_available_click_actions ==
    /\ self # None
    /\ last' = IF Get(self).page_source = None
               THEN Call("get_available_click_actions", 0, "TypeError", <<>>, <<>>)
               ELSE Call("get_available_click_actions", 0, "returned", <<>>,
                         get_available_click_actions(Get(Get(self).page_source)))
    /\ UNCHANGED <<domVars, dreamVars>>

\* close is a classmethod: it needs no instance.  Quitting a driver that was
\* quit before raises nothing (selenium's Chrome.quit swallows the error).
DOM_close ==
    /\ IF _browser = None
       THEN \* cls._browser.quit() on None
            /\ last' = Call("close", 0, "AttributeError", <<>>, <<>>)
            /\ UNCHANGED <<drivers, processes, _app_process>>
       ELSE /\ drivers' = [drivers EXCEPT ![Get(_browser)] = "quit"]
            /\ IF _app_process = None
               THEN \* cls._app_process.terminate() on None
                    /\ last' = Call("close", 0, "AttributeError", <<>>, <<>>)
                    /\ UNCHANGED <<processes, _app_process>>
               ELSE /\ processes' = [processes EXCEPT ![Get(_app_process)] = "terminated"]
                    /\ _app_process' = None
                    /\ last' = Call("close", 0, "returned", <<>>, <<>>)
    /\ UNCHANGED <<_browser, self, dreamVars>>

----------------------------------------------------------------------------
(* WebAgentDreamEnv.  Each instance owns a browser; page is what that      *)
(* browser shows: the document loaded, the scroll position (in units of    *)
(* DEFAULT_SCROLL_AMOUNT) and the text typed into the search bar.  A       *)
(* clickable is in the viewport when its row is the scroll position.       *)

Btn(id, row) == [cls |-> "btn", id |-> id, row |-> row]
Link(id, row) == [cls |-> "product-link", id |-> id, row |-> row]

DreamSearchPage ==
    [clickables |-> <<Btn("search", 0)>>, rows |-> 0, search_input |-> TRUE,
     instruction |-> "buy a", best |-> Json1]
DreamResultsPage ==
    [clickables |-> <<Link("p1", 0), Btn("back", 0), Link("p2", 0), Btn("next", 0),
                      Link("p3", 0), Link("p4", 1)>>,
     rows |-> 1, search_input |-> FALSE, instruction |-> "buy b", best |-> Json2]
DreamBrokenPage ==
    [clickables |-> <<>>, rows |-> 0, search_input |-> FALSE,
     instruction |-> Absent, best |-> Json1]

\* the documents browser.get and a click may load
DreamPages == {DreamSearchPage, DreamResultsPage, DreamBrokenPage}

Loaded(doc) == [doc |-> doc, y |-> 0, query |-> <<>>]

\* the outcomes of element.click() and of execute_script("arguments[0].click();")
ClickOutcomes == {"ok", "ElementNotInteractableException", "StaleElementReferenceException"}
ScriptOutcomes == {"ok", "JavascriptException"}
DreamActions == (-MaxAction)..(MaxAction + 8)

\* find_elements_by_class_name('btn') + find_elements_by_class_name('product-link'),
\* those in the viewport
Dream_get_available_click_actions(pg) ==
    LET buttons == SelectSeq(pg.doc.clickables, LAMBDA c : c.cls = "btn")
        product_links == SelectSeq(pg.doc.clickables, LAMBDA c : c.cls = "product-link")
    IN  SelectSeq(buttons \o product_links, LAMBDA c : c.row = pg.y)

Dream_state(env, pg) ==
    [html |-> pg.doc, instruction_text |-> env.instruction_text,
     best_products |-> env.best_products]

\* reset on an instance whose attributes are env: the page loaded, the
\* extraction, the instance left
DreamResetExtract(env, rnd, doc) ==
    LET session == IF env.assigned_session # None THEN Get(env.assigned_session) ELSE rnd
        s1 == SetAttr(env, "session", Some(session))
        it == get_instruction_text(doc)
        s2 == IF it.exc = "" THEN SetAttr(s1, "instruction_text", Get(it.value)) ELSE s1
        bp == IF it.exc = "" THEN get_best_products(doc) ELSE it
    IN  [exc |-> bp.exc,
         url |-> <<"http://127.0.0.1:3000", "/", session>>,
         env |-> IF bp.exc = "" THEN SetAttr(s2, "best_products", Get(bp.value)) ELSE s2]

\* the constructor: kwargs hold 'render' and 'session'; launch says whether
\* webdriver.Chrome starts; the constructor ends with self.reset()
Dream__init__(render, session, launch, rnd, doc) ==
    IF render
    THEN /\ last' = Call("dream.__init__", 0, "ValueError", <<>>, <<>>)
         /\ UNCHANGED <<domVars, dreamVars>>
    ELSE IF ~launch
    THEN /\ last' = Call("dream.__init__", 0, "WebDriverException", <<>>, <<>>)
         /\ UNCHANGED <<domVars, dreamVars>>
    ELSE LET env == [text_to_clickable |-> None, assigned_session |-> session,
                     session |-> None]
             r == DreamResetExtract(env, rnd, doc)
         IN  /\ last' = [Call("dream.__init__", 0,
                              IF r.exc = "" THEN "returned" ELSE r.exc, <<>>, <<>>)
                           EXCEPT !.driver_gets = <<r.url>>,
                                  !.gets = << [url |-> r.url, body |-> doc] >>]
             /\ IF r.exc = ""
                THEN dream' = Some(r.env) /\ page' = Some(Loaded(doc))
                ELSE UNCHANGED <<dream, page>>
             /\ UNCHANGED domVars

Dream_reset(rnd, doc) ==
    /\ dream # None
    /\ LET r == DreamResetExtract(Get(dream), rnd, doc)
       IN  /\ dream' = Some(r.env)
           /\ page' = Some(Loaded(doc))
           /\ last' = [Call("dream.reset", 0,
                            IF r.exc = "" THEN "returned" ELSE r.exc, <<>>,
                            IF r.exc = "" THEN <<Dream_state(r.env, Loaded(doc)), None>>
                            ELSE <<>>)
                         EXCEPT !.driver_gets = <<r.url>>,
                                !.gets = << [url |-> r.url, body |-> doc] >>]
    /\ UNCHANGED domVars

\* the exceptions of element.click() that step catches
CaughtAny(exc) == exc # "ok"
Caught(exc) == exc = "ElementNotInteractableException"

\* execute_search_query_input: type the instruction into the search bar, if any
SearchInput(env, pg) ==
    IF pg.doc.search_input THEN [pg EXCEPT !.query = Append(pg.query, env.instruction_text)]
    ELSE pg

ScrollDown(pg) == [pg EXCEPT !.y = IF pg.y < pg.doc.rows THEN pg.y + 1 ELSE pg.y]
ScrollUp(pg) == [pg EXCEPT !.y = IF pg.y > 0 THEN pg.y - 1 ELSE pg.y]

Dream_step(action, click, script, doc) ==
    /\ dream # None
    /\ action = 0 /\ Get(page).doc.search_input => Len(Get(page).query) < MaxTyped
    /\ LET env == Get(dream)
           pg == Get(page)
           clickables == Dream_get_available_click_actions(pg)
           Returned(pg1, done, clicks) ==
               /\ page' = Some(pg1)
               /\ last' = [Call("dream.step", action, "returned", <<>>,
                                <<Dream_state(env, pg1), 0, done, None>>)
                             EXCEPT !.clicks = clicks]
           Raised(exc, clicks) ==
               /\ page' = page
               /\ last' = [Call("dream.step", action, exc, <<>>, <<>>)
                             EXCEPT !.clicks = clicks]
       IN  IF action = 0 THEN Returned(SearchInput(env, pg), FALSE, <<>>)
           ELSE IF action = 1 THEN Returned(ScrollDown(pg), FALSE, <<>>)
           ELSE IF action = 2 THEN Returned(ScrollUp(pg), FALSE, <<>>)
           ELSE IF action = 3 THEN Returned(pg, TRUE, <<>>)
           ELSE IF action - 4 < Len(clickables)
           THEN IF ~InRange(clickables, action - 4)
                THEN Raised("IndexError", <<>>)
                ELSE LET button == PyIndex(clickables, action - 4)
                         c1 == [how |-> "click", element |-> button.id, result |-> click]
                         c2 == [how |-> "script", element |-> button.id, result |-> script]
                     IN  IF click = "ok" THEN Returned(Loaded(doc), FALSE, <<c1>>)
                         ELSE IF ~Caught(click) THEN Raised(click, <<c1>>)
                         ELSE IF script = "ok" THEN Returned(Loaded(doc), FALSE, <<c1, c2>>)
                         ELSE Raised(script, <<c1, c2>>)
           ELSE Returned(pg, FALSE, <<>>)
    /\ UNCHANGED <<domVars, dream>>

----------------------------------------------------------------------------
(* The state before any environment is constructed.                        *)

Init ==
    /\ _browser = None
    /\ _app_process = None
    /\ processes = <<>>
    /\ drivers = <<>>
    /\ self = None
    /\ dream = None
    /\ page = None
    /\ last = NoCall

\* One environment driven through episodes: the default configuration, one
\* chromedriver file that launches.
DefaultConfig == [return_n |-> 3, num_random |-> 0, shuffle_products |-> Some(FALSE)]
EpisodePages == {SearchPage, ResultsPage, NoInstructionPage}

Next ==
    \/ DOM__init__(DefaultConfig, <<TRUE>>)
    \/ \E g \in GoalIds, r \in RandomSessions, t \in BOOLEAN, body \in EpisodePages :
          DOM_reset(g, r, Some(0), t, body)
    \/ \E a \in Actions, body \in EpisodePages : DOM_step(a, body)
    \/ \E mode \in Modes, font \in BOOLEAN : DOM_render(mode, font)
    \/ DOM_close

Spec == Init /\ [][Next]_vars

\* Constructions and close() calls only, over every directory listing.
NextLifecycle ==
    \/ \E cfg \in Configs, launches \in Listings : DOM__init__(cfg, launches)
    \/ DOM_close

SpecLifecycle == Init /\ [][NextLifecycle]_vars

\* Constructions and resets only, over every configuration, argument and page.
NextReset ==
    \/ \E cfg \in Configs : DOM__init__(cfg, <<TRUE>>)
    \/ \E g \in GoalIds, r \in RandomSessions, seed \in Seeds, t \in BOOLEAN,
          body \in ServerPages : DOM_reset(g, r, seed, t, body)

SpecReset == Init /\ [][NextReset]_vars

\* One WebAgentDreamEnv driven through episodes.
NextDream ==
    \/ \E render \in BOOLEAN, session \in {None, Some("fixed_1")}, launch \in BOOLEAN,
          r \in RandomSessions, doc \in DreamPages :
          Dream__init__(render, session, launch, r, doc)
    \/ \E r \in RandomSessions, doc \in DreamPages : Dream_reset(r, doc)
    \/ \E a \in DreamActions, click \in ClickOutcomes, script \in ScriptOutcomes,
          doc \in DreamPages : Dream_step(a, click, script, doc)

SpecDream == Init /\ [][NextDream]_vars

\* A program that uses one of the two environments, on a browser that starts:
\* resets over every page the server may return, steps over the episode pages.
NextFrame ==
    \/ dream = None /\ DOM__init__(DefaultConfig, <<TRUE>>)
    \/ \E g \in GoalIds, r \in RandomSessions, seed \in Seeds, t \in BOOLEAN,
          body \in ServerPages : DOM_reset(g, r, seed, t, body)
    \/ \E a \in Actions, body \in EpisodePages : DOM_step(a, body)
    \/ self = None /\ \E session \in {None, Some("fixed_1")}, r \in RandomSessions,
                         doc \in DreamPages : Dream__init__(FALSE, session, TRUE, r, doc)
    \/ \E r \in RandomSessions, doc \in DreamPages : Dream_reset(r, doc)
    \/ \E a \in DreamActions, click \in ClickOutcomes, script \in ScriptOutcomes,
          doc \in DreamPages : Dream_step(a, click, script, doc)

SpecFrame == Init /\ [][NextFrame]_vars

\* get_available_click_actions on every page of at most MaxElems elements,
\* held by an environment that was constructed and reset.
RECURSIVE SeqsUpTo(_, _)
SeqsUpTo(S, n) ==
    IF n = 0 THEN {<<>>}
    ELSE LET shorter == SeqsUpTo(S, n - 1)
         IN  shorter \cup {Append(q, x) : q \in shorter, x \in S}

ClickPages ==
    {[elems |-> es, instruction |-> "buy a", best |-> Json1] : es \in SeqsUpTo(Elems, MaxElems)}

InitClick ==
    /\ _browser = Some(1)
    /\ _app_process = Some(1)
    /\ processes = <<"running">>
    /\ drivers = <<"live">>
    /\ \E body \in ClickPages :
          self = Some(ResetExtract(ResetFetched(NewEnv(DefaultConfig),
                                   None, "abcde", Some(0), FALSE, body)).env)
    /\ dream = None
    /\ page = None
    /\ last = NoCall

NextClick == DOM_get_available_click_actions

SpecClick == InitClick /\ [][NextClick]_vars

----------------------------------------------------------------------------
(* The claims.                                                             *)

Range(seq) == {seq[i] : i \in DOMAIN seq}

RunningApps == {i \in DOMAIN processes : processes[i] = "running"}

\* C1: at most one web-application process is running after any sequence of
\* constructions and close() calls: the only running process is the one
\* _app_process records, a construction starts a process exactly when
\* _app_process is None, and otherwise leaves _app_process as it is.
C1_AtMostOneAppProcess ==
    /\ [](/\ Cardinality(RunningApps) <= 1
          /\ RunningApps = (IF _app_process = None THEN {} ELSE {Get(_app_process)}))
    /\ [][last'.op = "__init__" =>
            /\ (Len(processes') > Len(processes)) <=> (_app_process = None)
            /\ Len(processes') <= Len(processes) + 1
            /\ _app_process # None => _app_process' = _app_process]_vars

\* a later construction reuses the process that an earlier one started, after
\* a close() and a restart
C1_Witness ==
    /\ Len(processes) = 2
    /\ Cardinality(RunningApps) = 1
    /\ last.op = "__init__"
    /\ last.started[1] = 0

\* C2: at most one browser driver has been started, and one construction
\* starts at most one, whatever the chromedriver files of the directory.
C2_AtMostOneBrowser ==
    /\ Len(drivers) <= 1
    /\ last.op = "__init__" => last.started[2] <= 1

\* the form/anchor targets of a page that begin with '/'
Targets(p) ==
    {e.value : e \in {x \in Range(p.elems) :
                        x.tag \in {"form", "product-link", "a"} /\ StartsWith(x.value, "/")}}

ClickCall == last.op = "get_available_click_actions" /\ last.outcome = "returned"
CurrentPage == Get(Get(self).page_source)

\* C3 as stated: the action list is exactly the form action values and the
\* anchor href values of the page that begin with '/'.
C3_ExactlyTheTargets ==
    ClickCall =>
        /\ Range(last.ret) = Targets(CurrentPage)
        /\ \A i \in DOMAIN last.ret : StartsWith(last.ret[i], "/")

\* the elements the two patterns match, in the order of the list
Matched(p) ==
    SelectSeq(p.elems, LAMBDA e : e.tag \in {"form", "button"} /\ StartsWith(e.value, "/"))
    \o SelectSeq(p.elems, LAMBDA e : e.tag = "product-link" /\ StartsWith(e.value, "/"))

Encoded(url) == \A i \in DOMAIN url : url[i] \in {"/", "a", "h", "%3F", "%26"}

\* C3 (amended): the action list has one entry for every action="..." match
\* and then one for every class="product-link" href="..." anchor whose value
\* begins with '/', in page order; an entry is the value decoded and
\* percent-encoded again, and begins with '/'.
C3_ClickActions ==
    ClickCall =>
        /\ Len(last.ret) = Len(Matched(CurrentPage))
        /\ \A i \in DOMAIN last.ret :
              /\ StartsWith(last.ret[i], "/")
              /\ Encoded(last.ret[i])
              /\ unquote(last.ret[i]) = unescape(unquote(Matched(CurrentPage)[i].value))

\* a page with a plain anchor to '/a' that is not listed, and a product link
\* whose entry differs from its href
C3_Witness ==
    /\ ClickCall
    /\ last.ret = << <<"/", "a", "%3F">> >>
    /\ [tag |-> "a", value |-> <<"/", "a">>] \in Range(CurrentPage.elems)
    /\ [tag |-> "product-link", value |-> <<"/", "a", "?">>] \in Range(CurrentPage.elems)

\* the attribute of an instance, None while it is unassigned
Attr(o, name) == IF o # None /\ HasAttr(Get(o), name) THEN Some(Get(o)[name]) ELSE None

\* the action list of the page the instance holds
Urls(o) == get_available_click_actions(Get(Get(o).page_source))
HoldsPage(o) == o # None /\ Get(o).page_source # None

\* C4: after a reset, step(i) with 0 <= i < len(action list) fetches exactly
\* the i-th URL of the list computed from the page held before the step;
\* afterwards page_source is the body returned, _cur_state is that URL, and
\* (after a successful reset) the observation's html is the new page.
C4_StepFetchesIthUrl ==
    [][(/\ last'.op = "step"
        /\ HoldsPage(self)
        /\ 0 <= last'.action /\ last'.action < Len(Urls(self)))
       => /\ Len(last'.gets) = 1
          /\ last'.gets[1].url = Urls(self)[last'.action + 1]
          /\ Get(self').page_source = Some(last'.gets[1].body)
          /\ Get(self')._cur_state = Some(last'.gets[1].url)
          /\ HasState(Get(self)) =>
                /\ last'.outcome = "returned"
                /\ last'.ret[1].html = Some(last'.gets[1].body)]_vars

\* step(1) on the results page fetched its second product link, and the
\* body returned is a different page
C4_Witness ==
    /\ last.op = "step" /\ last.action = 1 /\ last.outcome = "returned"
    /\ last.gets = << [url |-> <<"/", "%3F">>, body |-> SearchPage] >>
    /\ Get(self).page_source = Some(SearchPage)
    /\ Get(self)._cur_state = Some(<<"/", "%3F">>)

\* C5: a step whose action addresses no available action (an index at or
\* beyond the end of the list, or a negative index) fetches nothing, raises
\* nothing and leaves page_source and _cur_state unchanged.
C5_MalformedActionIgnored ==
    [][(/\ last'.op = "step"
        /\ HoldsPage(self) /\ HasState(Get(self))
        /\ (last'.action >= Len(Urls(self)) \/ last'.action < 0))
       => /\ last'.gets = <<>>
          /\ last'.outcome = "returned"
          /\ Get(self').page_source = Get(self).page_source
          /\ Get(self')._cur_state = Get(self)._cur_state]_vars

\* C6: every step after a successful reset returns (observation, 0.0, done,
\* None), with done False in WebAgentDreamDOMEnv and done = (action = 3) in
\* WebAgentDreamEnv (whose calls are those of SpecDream).
C6_StepReturnsTuple ==
    /\ (last.op = "step" /\ HasState(Get(self))) =>
          /\ last.outcome = "returned"
          /\ last.ret[2] = 0 /\ last.ret[3] = FALSE /\ last.ret[4] = None
    /\ last.op = "dream.step" =>
          /\ last.outcome = "returned"
          /\ last.ret[2] = 0 /\ last.ret[3] = (last.action = 3) /\ last.ret[4] = None

RECURSIVE Join(_, _)
Join(params, sep) ==
    IF Len(params) <= 1 THEN params
    ELSE <<Head(params), sep>> \o Join(Tail(params), sep)

ResetCall == last.op = "reset"
Env == Get(self)

SeedParam == IF Env.seed = None THEN <<>> ELSE <<"seed=" \o ToString(Get(Env.seed))>>
FixedParams ==
    <<"return_n=" \o ToString(Env.return_n), "num_random=" \o ToString(Env.num_random)>>

\* the request of a reset whose query carries the parameters params
ResetRequestIs(params) ==
    /\ Len(last.gets) = 1
    /\ last.gets[1].url =
          <<Localhost, "/", Env.session, "?">> \o Join(params \o <<"episode_start=1">>, "&")
    /\ Env._cur_state = Some(<<"/", Env.session, "?">> \o Join(params, "&"))

\* C7 as stated: every reset issues one GET to /<session> whose query carries
\* return_n, num_random, seed (when not None), shuffle_products as 0 or 1 and
\* episode_start=1; _cur_state is the path and query without episode_start.
C7_ShuffleAlwaysSent ==
    ResetCall =>
        \E b \in {0, 1} :
            ResetRequestIs(FixedParams \o SeedParam \o <<"shuffle_products=" \o ToString(b)>>)

ShuffleParam ==
    IF Env.shuffle_products = None THEN <<>>
    ELSE <<"shuffle_products=" \o (IF Get(Env.shuffle_products) THEN "1" ELSE "0")>>

\* C7 (amended): as C7, with shuffle_products sent (as 0 or 1) whenever the
\* constructor's shuffle_products is not None.
C7_ResetRequest ==
    ResetCall => ResetRequestIs(FixedParams \o SeedParam \o ShuffleParam)

\* a reset with seed None by an environment built with shuffle_products None
C7_Witness ==
    /\ ResetCall
    /\ last.gets[1].url = <<Localhost, "/", "fixed_1", "?", "return_n=3", "&",
                            "num_random=0", "&", "episode_start=1">>

Lacking(body) ==
    body.instruction \in {Absent, NoHeading} \/ body.best \in {Absent, NoHeading}

\* C8: a reset whose page lacks the instruction-text or best-products element
\* (or its h4) ends in AttributeError and returns no pair; no default takes
\* the place of the value that could not be extracted.
C8_ResetRaisesOnMissingElement ==
    [][(last'.op = "reset" /\ Lacking(last'.gets[1].body))
       => /\ last'.outcome = "AttributeError"
          /\ last'.ret = <<>>
          /\ Attr(self', "best_products") = Attr(self, "best_products")
          /\ last'.gets[1].body.instruction \in {Absent, NoHeading} =>
                Attr(self', "instruction_text") = Attr(self, "instruction_text")]_vars

\* a reset on a page without the instruction element after a successful
\* reset: it raised, and the earlier values are still there
C8_Witness ==
    /\ ResetCall
    /\ last.gets[1].body = NoInstructionPage
    /\ last.outcome = "AttributeError"
    /\ Attr(self, "instruction_text") = Some("buy b")

\* C9: in WebAgentDreamEnv.step, a click that raises
\* ElementNotInteractableException is followed by exactly one scripted click
\* of the same element, and step returns if that succeeds; any other
\* exception of the click, and any exception of the scripted click, leaves
\* step and nothing is retried.
C9_ClickRetriedOnce ==
    (last.op = "dream.step" /\ last.clicks # <<>>) =>
        LET c == last.clicks
        IN  /\ c[1].how = "click"
            /\ c[1].result = "ok" => Len(c) = 1 /\ last.outcome = "returned"
            /\ c[1].result = "ElementNotInteractableException" =>
                  /\ Len(c) = 2
                  /\ c[2].how = "script" /\ c[2].element = c[1].element
                  /\ last.outcome = (IF c[2].result = "ok" THEN "returned" ELSE c[2].result)
            /\ c[1].result \notin {"ok", "ElementNotInteractableException"} =>
                  Len(c) = 1 /\ last.outcome = c[1].result

\* the click of a visible element raised ElementNotInteractableException, the
\* scripted click went through and step returned
C9_Witness ==
    /\ last.op = "dream.step" /\ last.action >= 4
    /\ Len(last.clicks) = 2
    /\ last.clicks[2].result = "ok"
    /\ last.outcome = "returned"

FirstStep == Get(self).first_step

\* what C10 says of the screenshot and of the query string
ScreenshotAndQuery ==
    /\ (last.op = "render" /\ last.driver_gets # <<>>) =>
          last.driver_gets[1] =
              <<AppUrl>> \o Get(Env._cur_state) \o (IF FirstStep THEN EpisodeStart ELSE <<>>)
    /\ (self # None /\ HasAttr(Env, "session") /\ FirstStep) =>
          Contains(Get(Env._cur_state), "?")

\* C10 as stated: first_step is True exactly between a reset and the next
\* step: a reset sets it, a step clears it, nothing else changes it, and it
\* is not set before the first reset.
C10_FirstStepOnlyAfterReset ==
    /\ [][/\ last'.op = "reset" => Get(self').first_step
          /\ last'.op = "step" => ~Get(self').first_step
          /\ (last'.op = "__init__" /\ last'.outcome = "returned") => ~Get(self').first_step
          /\ (last'.op \in {"render", "close"} /\ self # None) =>
                Get(self').first_step = Get(self).first_step]_vars
    /\ []ScreenshotAndQuery

\* C10 (amended): first_step is True exactly between a construction or a
\* reset and the next step: the constructor and reset set it, every step
\* clears it (also one that is ignored or raises), nothing else changes it;
\* the screenshot appends '&episode_start=1' iff it is set; and when it is
\* set after a reset, _cur_state contains '?'.
C10_FirstStep ==
    /\ [][/\ last'.op = "reset" => Get(self').first_step
          /\ last'.op = "step" => ~Get(self').first_step
          /\ (last'.op = "__init__" /\ last'.outcome = "returned") => Get(self').first_step
          /\ (last'.op \in {"render", "close"} /\ self # None) =>
                Get(self').first_step = Get(self).first_step]_vars
    /\ []ScreenshotAndQuery

\* the screenshot taken right after a reset with is_test: the flag is set and
\* the URL ends with the episode_start parameter
C10_Witness ==
    /\ last.op = "render" /\ last.driver_gets # <<>>
    /\ FirstStep
    /\ SubSeq(last.driver_gets[1], Len(last.driver_gets[1]) - 1, Len(last.driver_gets[1]))
          = EpisodeStart

RenderCall == last.op = "render"
DriverLive == _browser # None /\ drivers[Get(_browser)] = "live"

\* which image the last render returned
Kind == IF last.outcome = "returned" THEN last.ret[1] ELSE "none"

\* C11 as stated: render may be called at any point after construction and
\* returns an image: the real screenshot of _cur_state if the most recent
\* reset had is_test=True, the fake one otherwise, whatever the mode.
C11_RenderAlwaysReturns ==
    RenderCall =>
        /\ last.outcome = "returned"
        /\ Kind = (IF Attr(self, "is_test") = Some(TRUE) THEN "screenshot"
                   ELSE "fake_screenshot")

\* C11 (amended): render before the first reset raises AttributeError.  After
\* a reset the choice is made by the is_test of the most recent reset alone,
\* whatever the mode and the steps since: with is_test=True render loads
\* _cur_state in the browser and returns the real screenshot, or raises when
\* the driver in _browser was quit by close(); otherwise it returns the fake
\* screenshot with the abbreviated URL text, or raises OSError when the font
\* cannot be loaded.  Only reset (and a new construction) changes is_test.
C11_Render ==
    /\ [](RenderCall =>
            /\ Attr(self, "is_test") = None =>
                  last.outcome = "AttributeError"
            /\ Attr(self, "is_test") = Some(TRUE) =>
                  /\ Kind = (IF DriverLive THEN "screenshot" ELSE "none")
                  /\ DriverLive =>
                        SubSeq(last.driver_gets[1], 1, 1 + Len(Get(Env._cur_state)))
                            = <<AppUrl>> \o Get(Env._cur_state)
                  /\ ~DriverLive => last.outcome = "WebDriverException"
            /\ Attr(self, "is_test") = Some(FALSE) =>
                  /\ last.outcome \in {"returned", "OSError"}
                  /\ last.driver_gets = <<>>
                  /\ last.outcome = "returned" =>
                        /\ Kind = "fake_screenshot"
                        /\ Len(last.ret[2]) <= Len(Text(Get(Env._cur_state)))
                        /\ SubSeq(last.ret[2], 1, 1) = "/")
    /\ [][last'.op \in {"step", "render", "close"} =>
            Attr(self', "is_test") = Attr(self, "is_test")]_vars

\* a render with mode 'human' after a reset with is_test=True and an ignored
\* step returned the real screenshot
C11_Witness ==
    /\ RenderCall /\ last.mode = "human"
    /\ Kind = "screenshot"
    /\ ~FirstStep

\* what an episode fixes on an instance
Episode(o) ==
    <<Attr(o, "session"), Attr(o, "seed"), Attr(o, "is_test"),
      Attr(o, "instruction_text"), Attr(o, "best_products")>>

\* the instance a call was made on
Callee(op, dom, drm) == IF op \in {"reset", "step"} THEN dom ELSE drm

\* C12: in both environments step leaves session, seed, is_test,
\* instruction_text and best_products as they were, and the observation a
\* step returns carries the stored instruction_text and best_products; a
\* reset (or the construction of WebAgentDreamEnv, which ends with a reset)
\* that returns has stored the values extracted from the page it fetched.
\* So every step after a reset reports that reset's values, whatever page the
\* html of the observation is.
C12_StepKeepsEpisode ==
    /\ [][last'.op \in {"step", "dream.step"} =>
            /\ Episode(self') = Episode(self)
            /\ Episode(dream') = Episode(dream)
            /\ last'.outcome = "returned" =>
                  LET obs == last'.ret[1]
                      o == Callee(last'.op, self, dream)
                  IN  /\ Some(obs.instruction_text) = Attr(o, "instruction_text")
                      /\ Some(obs.best_products) = Attr(o, "best_products")]_vars
    /\ [][last'.op \in {"reset", "dream.reset", "dream.__init__"}
            /\ last'.outcome = "returned" =>
               LET body == last'.gets[1].body
                   o == Callee(last'.op, self', dream')
               IN  /\ Attr(o, "instruction_text") = get_instruction_text(body).value
                   /\ Attr(o, "best_products") = get_best_products(body).value]_vars

\* a step fetched a page that carries another instruction than the one in
\* the observation it returned
C12_Witness ==
    /\ last.op = "step" /\ last.outcome = "returned" /\ last.gets # <<>>
    /\ LET obs == last.ret[1]
       IN  /\ get_instruction_text(Get(obs.html)).exc = ""
           /\ get_instruction_text(Get(obs.html)).value # Some(obs.instruction_text)
           /\ get_best_products(Get(obs.html)).value # Some(obs.best_products)

CloseCall == last.op = "close"

\* C13: close() releases both class-level singletons: after a close() that
\* returned neither an app process nor a browser driver is recorded, a second
\* close() returns as well, the next construction starts a new app process
\* and a new browser driver, and a recorded _browser is never a quit driver.
C13_CloseReleasesBoth ==
    /\ [](CloseCall /\ last.outcome = "returned" =>
             _app_process = None /\ _browser = None)
    /\ [](_browser # None => drivers[Get(_browser)] # "quit")
    /\ [][CloseCall /\ last.outcome = "returned" /\ last'.op = "close" =>
             last'.outcome = "returned"]_vars
    /\ [][CloseCall /\ last.outcome = "returned" /\ last'.op = "__init__"
             /\ last'.outcome = "returned" =>
                last'.started[1] = 1 /\ last'.started[2] >= 1]_vars

====
